---- MODULE Spec2Model ----
(***************************************************************************)
(* Input-state synchronisation of the 3D multiplayer starter pack.         *)
(*                                                                         *)
(* Two programs are modelled, each a single-threaded event loop:           *)
(*   - the interactive client (client/src/App.tsx): the connection         *)
(*     callbacks, the table callbacks, the input handlers, the game-loop   *)
(*     effect and sendInput;                                               *)
(*   - the bot driver (client/src/simulation.ts): spawnClient, tickClient  *)
(*     and main.                                                           *)
(* Every action is one callback of the event loop, run to completion.      *)
(* The SpacetimeDB connection, the remote service, the timers and the      *)
(* display-refresh callback are the environment: they decide when a        *)
(* callback runs and with which arguments.  A callback given to the        *)
(* connection stays registered for the connection object's lifetime (the   *)
(* code never detaches one), so the environment may run it whenever        *)
(* it is registered.                                                       *)
(***************************************************************************)
EXTENDS Integers, Sequences, FiniteSets, TLC

(***************************************************************************)
(* Bounds of the model.                                                    *)
(***************************************************************************)
MaxSeq == 2          \* ticks that increment a session's sequence number
MaxTime == 100       \* the clock stops here (ms)
TimeStep == 25       \* the clock advances by this much (ms)
MaxVal == 2          \* versions of a player row the remote service emits
NumBots == 2         \* bot sessions spawned by the driver
MaxDraw == 0         \* largest value a random draw of an index takes
MaxDurationArg == 0  \* largest duration argument of the bot driver (s)
MaxHoldDraw == 19    \* largest value a draw of a direction countdown takes, tickClient on its own
MaxHoldTicks == 28   \* ticks of a session, tickClient on its own

(***************************************************************************)
(* Program constants.                                                      *)
(***************************************************************************)
INPUT_SEND_INTERVAL == 50
INPUT_TICK_INTERVAL_MS == 50

Identities == {"idA", "idB"}
\* the identity the remote service assigns to the interactive session
AssignedIdentities == {"idA"}
NoIdentity == "null"

\* A PlayerData row: the fields the remote service changes move together, so
\* that a row that mixes two versions is none of the rows the service emitted.
PlayerData(id, v) == [identity |-> id, position |-> v, health |-> v]
NoPlayer == [identity |-> NoIdentity, position |-> 0, health |-> 0]
Rows == {PlayerData(id, v) : id \in Identities, v \in 1..MaxVal}

FlagKeys == {"forward", "backward", "left", "right", "sprint", "jump", "attack", "castSpell"}
InputKeys == FlagKeys \cup {"sequence"}

VARIABLES
    program,              \* which of the two programs runs: "App" or "simulation"
    now,                  \* the clock, ms
    \* ---- App.tsx ----
    conn,                 \* module-level connection handle: "null" or "conn"
    connected, identity, statusMessage, players, localPlayer, showJoinDialog,
    identityRef, localPlayerRef, connectedRef,
    currentInputRef, lastSentInputState, animationFrameIdRef,
    lastSendTime,         \* the game-loop effect's closure variable
    effectConnected,      \* value of `connected` the game-loop effect last ran with
    inputListeners,       \* window listeners installed
    \* ---- environment of App.tsx ----
    socket,               \* "idle", "connecting", "open", "closed"
    connCalls,            \* calls made on the connection object, in order
    subApplied,           \* the subscription-applied callback has run
    dbPlayer,             \* the connection's client cache of the player table
    registration,         \* registerPlayer: "none", "pending", "accepted", "rejected"
    updates,              \* sequence number and time of every updatePlayerInput call, in order
    lastCall,             \* argument of the latest updatePlayerInput call
    lastWrite,            \* per identity, the row of the latest insert/update notification
    torn,                 \* onDisconnect has run
    \* ---- simulation.ts ----
    state,                \* per bot, the ClientState of spawnClient
    clients,              \* main's list of the sessions whose spawn was fulfilled
    mainPhase,            \* "connecting", "running", "exited"
    exitCode,             \* process.exit argument, -1 while running
    duration,             \* SIMULATION_DURATION_MS of this run
    stopDue,              \* earliest time the duration timer of main fires, -1 before it is armed
    \* ---- environment of simulation.ts ----
    botSocket,            \* per bot: "connecting", "open", "closed"
    botCalls,             \* per bot: calls made on the connection object, in order
    botApplied,           \* per bot: the subscription's onApplied has run
    botErrored,           \* per bot: the subscription's onError has run
    promise,              \* per bot: "pending", "fulfilled", "rejected"
    timeout,              \* per bot, the 15 s timer: "armed", "cleared", "fired"
    tickDue,              \* per bot: earliest time the interval timer fires next
    botRegistration,      \* per bot, registerPlayer: "none", "pending", "accepted", "rejected"
    botUpdates,           \* per bot: sequence number and time of every updatePlayerInput call
    botLastCall,          \* per bot: argument of the latest updatePlayerInput call
    redraws               \* per bot: the ticks, by number, at which the direction was re-drawn

appVars == <<conn, connected, identity, statusMessage, players, localPlayer,
             showJoinDialog, identityRef, localPlayerRef, connectedRef,
             currentInputRef, lastSentInputState, animationFrameIdRef,
             lastSendTime, effectConnected, inputListeners,
             socket, connCalls, subApplied, dbPlayer, registration, updates,
             lastCall, lastWrite, torn>>

simVars == <<state, clients, mainPhase, exitCode, duration, stopDue, botSocket, botCalls, botApplied,
             botErrored, promise, timeout, tickDue, botRegistration, botUpdates,
             botLastCall, redraws>>

vars == <<program, now, appVars, simVars>>

----------------------------------------------------------------------------
(***************************************************************************)
(* JavaScript values.                                                      *)
(***************************************************************************)
\* An object with no own property ({}).
EmptyObject == [k \in {} |-> FALSE]

\* Map.set / Map.delete on a Map held as a function.
MapSet(m, k, v) == [x \in (DOMAIN m) \cup {k} |-> IF x = k THEN v ELSE m[x]]
MapDelete(m, k) == [x \in (DOMAIN m) \ {k} |-> m[x]]
EmptyMap == [k \in {} |-> NoPlayer]

\* obj[key] !== other[key], where a missing property reads undefined.
StrictNotEqual(a, b, k) ==
    IF k \in DOMAIN a /\ k \in DOMAIN b THEN a[k] # b[k]
    ELSE (k \in DOMAIN a) # (k \in DOMAIN b)

InitialInput ==
    [forward |-> FALSE, backward |-> FALSE, left |-> FALSE, right |-> FALSE,
     sprint |-> FALSE, jump |-> FALSE, attack |-> FALSE, castSpell |-> FALSE,
     sequence |-> 0]

Range(f) == {f[i] : i \in DOMAIN f}

----------------------------------------------------------------------------
(***************************************************************************)
(* App.tsx: pure helpers.                                                  *)
(***************************************************************************)
\* keyMap, with the codes the environment presses; "KeyQ" is not mapped.
keyMap ==
    [KeyW |-> "forward", KeyS |-> "backward", KeyA |-> "left", KeyD |-> "right",
     ShiftLeft |-> "sprint", Space |-> "jump"]
PressedCodes == {"KeyW", "KeyQ"}
MouseButtons == {0, 2}

determineAnimation(input) ==
    IF input.attack THEN "attack1"
    ELSE IF input.castSpell THEN "cast"
    ELSE IF input.jump THEN "jump"
    ELSE LET forward == input.forward
             backward == input.backward
             left == input.left
             right == input.right
             isMoving == forward \/ backward \/ left \/ right
             direction ==
                 IF forward /\ ~backward THEN "forward"
                 ELSE IF backward /\ ~forward THEN "back"
                 ELSE IF left /\ ~right THEN "left"
                 ELSE IF right /\ ~left THEN "right"
                 ELSE IF forward /\ left THEN "left"
                 ELSE IF forward /\ right THEN "right"
                 ELSE IF backward /\ left THEN "left"
                 ELSE IF backward /\ right THEN "right"
                 ELSE "forward"
             moveType == IF input.sprint THEN "run" ELSE "walk"
         IN IF ~isMoving THEN "idle" ELSE moveType \o "-" \o direction

\* The for-in loop of sendInput: some own property of the current state differs
\* from the last sent one.
changed(currentInputState, lastSent) ==
    \E key \in DOMAIN currentInputState :
        StrictNotEqual(currentInputState, lastSent, key)

\* sendInput's early return.
SendInputReady == conn # "null" /\ identityRef # NoIdentity /\ connectedRef

\* The object handed to conn.reducers.updatePlayerInput.
UpdateCall(currentInputState) ==
    [input |-> currentInputState,
     clientAnimation |-> determineAnimation(currentInputState)]

\* What the history keeps of a call: its sequence number and when it was made.
Stamp(seq) == [sequence |-> seq, at |-> now]

NoCall == [input |-> InitialInput, clientAnimation |-> "none"]
NoBotCall == [input |-> InitialInput, clientRot |-> "0", clientAnimation |-> "none"]

\* { ...currentInputState }
CopyOf(currentInputState) == currentInputState

\* sendInput with a gate that compares the flags only, not the sequence number.
sendInputOnFlagChange(currentInputState) ==
    IF ~SendInputReady THEN UNCHANGED <<updates, lastCall, lastSentInputState>>
    ELSE IF \E key \in FlagKeys : StrictNotEqual(currentInputState, lastSentInputState, key)
         THEN /\ updates' = Append(updates, Stamp(currentInputState.sequence))
              /\ lastCall' = UpdateCall(currentInputState)
              /\ lastSentInputState' = CopyOf(currentInputState)
         ELSE UNCHANGED <<updates, lastCall, lastSentInputState>>

\* a sendInput that transmits and does not record what it sent
sendInputForgetful(currentInputState) ==
    IF ~SendInputReady THEN UNCHANGED <<updates, lastCall, lastSentInputState>>
    ELSE IF changed(currentInputState, lastSentInputState)
            \/ StrictNotEqual(currentInputState, lastSentInputState, "sequence")
         THEN /\ updates' = Append(updates, Stamp(currentInputState.sequence))
              /\ lastCall' = UpdateCall(currentInputState)
              /\ UNCHANGED lastSentInputState
         ELSE UNCHANGED <<updates, lastCall, lastSentInputState>>

\* sendInput(currentInputState), with the handle and the refs as they are now.
sendInput(currentInputState) ==
    IF ~SendInputReady THEN UNCHANGED <<updates, lastCall, lastSentInputState>>
    ELSE IF changed(currentInputState, lastSentInputState)
            \/ StrictNotEqual(currentInputState, lastSentInputState, "sequence")
         THEN /\ updates' = Append(updates, Stamp(currentInputState.sequence))
              /\ lastCall' = UpdateCall(currentInputState)
              /\ lastSentInputState' = CopyOf(currentInputState)
         ELSE UNCHANGED <<updates, lastCall, lastSentInputState>>

\* registerTableCallbacks() then subscribeToTables(), as calls on the connection.
registerTableCallbacks(c) ==
    IF c = "null" THEN <<>> ELSE <<"onInsert", "onUpdate", "onDelete">>
subscribeToTables(c) ==
    IF c = "null" THEN <<>> ELSE <<"subscribe">>
\* onConnect subscribing before it registers the callbacks
OnConnectCallsSubscribeFirst(c) == subscribeToTables(c) \o registerTableCallbacks(c)

OnConnectCalls(c) == registerTableCallbacks(c) \o subscribeToTables(c)

IsLocal(id) == identityRef # NoIdentity /\ id = identityRef

----------------------------------------------------------------------------
(***************************************************************************)
(* App.tsx: the connection callbacks.                                      *)
(***************************************************************************)
\* a connection effect that runs again whenever the connection has gone down
ConnectionEffectDueAfterDisconnect == socket \in {"idle", "closed"}

\* The connection effect has an empty dependency list: React runs it once, after
\* the first render.
ConnectionEffectDue == socket = "idle"

\* The connection effect: DbConnection.builder()...build() starts the handshake.
ConnectionEffect ==
    /\ program = "App"
    /\ ConnectionEffectDue
    /\ IF conn # "null"
       THEN /\ inputListeners' = (inputListeners \/ connected)
            /\ UNCHANGED socket
       ELSE /\ socket' = "connecting"
            /\ UNCHANGED inputListeners
    /\ UNCHANGED simVars
    /\ UNCHANGED <<now, program, conn, connected, identity, statusMessage, players,
                   localPlayer, showJoinDialog, identityRef, localPlayerRef,
                   connectedRef, currentInputRef, lastSentInputState,
                   animationFrameIdRef, lastSendTime, effectConnected, connCalls,
                   subApplied, dbPlayer, registration, updates, lastCall, lastWrite, torn>>

\* onConnect(connection, id, token): the handshake succeeded.
OnConnect(id) ==
    /\ program = "App"
    /\ socket = "connecting"
    /\ socket' = "open"
    /\ conn' = "conn"
    /\ identityRef' = id
    /\ connectedRef' = TRUE
    /\ identity' = id
    /\ connected' = TRUE
    /\ statusMessage' = "Connected as"
    /\ connCalls' = connCalls \o OnConnectCalls(conn')
    /\ inputListeners' = TRUE
    /\ showJoinDialog' = TRUE
    /\ UNCHANGED simVars
    /\ UNCHANGED <<now, program, players, localPlayer, localPlayerRef, currentInputRef,
                   lastSentInputState, animationFrameIdRef, lastSendTime,
                   effectConnected, subApplied, dbPlayer, registration, updates, lastCall,
                   lastWrite, torn>>

\* onDisconnect(ctx, reason): the connection went down.
OnDisconnect ==
    /\ program = "App"
    /\ socket = "open"
    /\ socket' = "closed"
    /\ statusMessage' = "Disconnected"
    /\ conn' = "null"
    /\ identityRef' = NoIdentity
    /\ connectedRef' = FALSE
    /\ localPlayerRef' = NoPlayer
    /\ identity' = NoIdentity
    /\ connected' = FALSE
    /\ players' = EmptyMap
    /\ localPlayer' = NoPlayer
    /\ torn' = TRUE
    /\ lastWrite' = [i \in Identities |-> NoPlayer]
    /\ UNCHANGED simVars
    /\ UNCHANGED <<now, program, showJoinDialog, currentInputRef, lastSentInputState,
                   animationFrameIdRef, lastSendTime, effectConnected,
                   inputListeners, connCalls, subApplied, dbPlayer, registration,
                   updates, lastCall>>

(***************************************************************************)
(* App.tsx: the table callbacks.  The connection updates its client cache  *)
(* (dbPlayer) and then runs the registered callback.                       *)
(***************************************************************************)
\* conn.db.player.onInsert callback
OnInsert(player) ==
    /\ program = "App"
    /\ "onInsert" \in Range(connCalls)
    /\ player.identity \notin DOMAIN dbPlayer
    /\ dbPlayer' = MapSet(dbPlayer, player.identity, player)
    /\ players' = MapSet(players, player.identity, player)
    /\ IF IsLocal(player.identity)
       THEN /\ localPlayer' = player
            /\ localPlayerRef' = player
            /\ statusMessage' = "Registered as"
       ELSE UNCHANGED <<localPlayer, localPlayerRef, statusMessage>>
    /\ lastWrite' = [lastWrite EXCEPT ![player.identity] = player]
    /\ UNCHANGED simVars
    /\ UNCHANGED <<now, program, conn, connected, identity, showJoinDialog, identityRef,
                   connectedRef, currentInputRef, lastSentInputState,
                   animationFrameIdRef, lastSendTime, effectConnected,
                   inputListeners, socket, connCalls, subApplied, registration,
                   updates, lastCall, torn>>

\* an update merged field by field, the position of a known player kept
UpdatedPlayersMerged(prev, newPlayer) ==
    IF newPlayer.identity \in DOMAIN prev
    THEN MapSet(prev, newPlayer.identity,
                [newPlayer EXCEPT !.position = prev[newPlayer.identity].position])
    ELSE MapSet(prev, newPlayer.identity, newPlayer)

\* the new value of the players map after an update notification
UpdatedPlayers(prev, newPlayer) == MapSet(prev, newPlayer.identity, newPlayer)

\* a delete that leaves the map as it was
DeletedPlayersKept(prev, player) == prev

\* the new value of the players map after a delete notification
DeletedPlayers(prev, player) == MapDelete(prev, player.identity)

\* conn.db.player.onUpdate callback
OnUpdate(oldPlayer, newPlayer) ==
    /\ program = "App"
    /\ "onUpdate" \in Range(connCalls)
    /\ oldPlayer.identity \in DOMAIN dbPlayer
    /\ dbPlayer[oldPlayer.identity] = oldPlayer
    /\ newPlayer.identity = oldPlayer.identity
    /\ newPlayer # oldPlayer
    /\ dbPlayer' = MapSet(dbPlayer, newPlayer.identity, newPlayer)
    /\ players' = UpdatedPlayers(players, newPlayer)
    /\ IF IsLocal(newPlayer.identity)
       THEN /\ localPlayer' = newPlayer
            /\ localPlayerRef' = newPlayer
       ELSE UNCHANGED <<localPlayer, localPlayerRef>>
    /\ lastWrite' = [lastWrite EXCEPT ![newPlayer.identity] = newPlayer]
    /\ UNCHANGED simVars
    /\ UNCHANGED <<now, program, conn, connected, identity, statusMessage, showJoinDialog,
                   identityRef, connectedRef, currentInputRef, lastSentInputState,
                   animationFrameIdRef, lastSendTime, effectConnected,
                   inputListeners, socket, connCalls, subApplied, registration,
                   updates, lastCall, torn>>

\* conn.db.player.onDelete callback
OnDelete(player) ==
    /\ program = "App"
    /\ "onDelete" \in Range(connCalls)
    /\ player.identity \in DOMAIN dbPlayer
    /\ dbPlayer[player.identity] = player
    /\ dbPlayer' = MapDelete(dbPlayer, player.identity)
    /\ players' = DeletedPlayers(players, player)
    /\ IF IsLocal(player.identity)
       THEN /\ localPlayer' = NoPlayer
            /\ localPlayerRef' = NoPlayer
            /\ statusMessage' = "Local player deleted!"
       ELSE UNCHANGED <<localPlayer, localPlayerRef, statusMessage>>
    /\ lastWrite' = [lastWrite EXCEPT ![player.identity] = NoPlayer]
    /\ UNCHANGED simVars
    /\ UNCHANGED <<now, program, conn, connected, identity, showJoinDialog, identityRef,
                   connectedRef, currentInputRef, lastSentInputState,
                   animationFrameIdRef, lastSendTime, effectConnected,
                   inputListeners, socket, connCalls, subApplied, registration,
                   updates, lastCall, torn>>

\* a backfill that adds the rows of the client cache to a map that has entries
BackfilledPlayersMerged(prev, c, cache) ==
    IF c # "null"
    THEN [id \in (DOMAIN prev) \cup (DOMAIN cache) |->
             IF id \in DOMAIN cache THEN cache[id] ELSE prev[id]]
    ELSE prev

\* the setPlayers updater of onSubscriptionApplied: the new value of the map
BackfilledPlayers(prev, c, cache) ==
    IF Cardinality(DOMAIN prev) = 0 /\ c # "null" THEN cache ELSE prev

\* a backfill that takes the alias from the client cache whatever the map holds
BackfilledLocalUnguarded(prev, c, cache, idRef, local) ==
    IF c # "null"
    THEN IF idRef # NoIdentity /\ idRef \in DOMAIN cache THEN cache[idRef] ELSE local
    ELSE local

\* the local-player alias after onSubscriptionApplied
BackfilledLocal(prev, c, cache, idRef, local) ==
    IF Cardinality(DOMAIN prev) = 0 /\ c # "null"
    THEN IF idRef # NoIdentity /\ idRef \in DOMAIN cache THEN cache[idRef] ELSE local
    ELSE local

\* onSubscriptionApplied: `backfill` are the rows the subscription adds to the
\* client cache without an insert notification of their own.
OnSubscriptionApplied(backfill) ==
    /\ program = "App"
    /\ "subscribe" \in Range(connCalls)
    /\ ~subApplied
    /\ subApplied' = TRUE
    /\ \A id \in DOMAIN backfill : id \notin DOMAIN dbPlayer
    /\ dbPlayer' = [id \in (DOMAIN dbPlayer) \cup (DOMAIN backfill) |->
                        IF id \in DOMAIN dbPlayer THEN dbPlayer[id] ELSE backfill[id]]
    /\ players' = BackfilledPlayers(players, conn, dbPlayer')
    /\ localPlayer' = BackfilledLocal(players, conn, dbPlayer', identityRef, localPlayer)
    /\ localPlayerRef' = BackfilledLocal(players, conn, dbPlayer', identityRef, localPlayerRef)
    /\ UNCHANGED simVars
    /\ UNCHANGED <<now, program, conn, connected, identity, statusMessage, showJoinDialog,
                   identityRef, connectedRef, currentInputRef, lastSentInputState,
                   animationFrameIdRef, lastSendTime, effectConnected,
                   inputListeners, socket, connCalls, registration, updates, lastCall,
                   lastWrite, torn>>

\* a subscription-error callback that also marks the session disconnected
OnSubscriptionErrorTearsDown ==
    /\ program = "App"
    /\ "subscribe" \in Range(connCalls)
    /\ statusMessage' = "Subscription Error"
    /\ connected' = FALSE
    /\ connectedRef' = FALSE
    /\ UNCHANGED simVars
    /\ UNCHANGED <<now, program, conn, identity, players, localPlayer,
                   showJoinDialog, identityRef, localPlayerRef,
                   currentInputRef, lastSentInputState, animationFrameIdRef,
                   lastSendTime, effectConnected, inputListeners, socket,
                   connCalls, subApplied, dbPlayer, registration, updates, lastCall,
                   lastWrite, torn>>

\* onSubscriptionError
OnSubscriptionError ==
    /\ program = "App"
    /\ "subscribe" \in Range(connCalls)
    /\ statusMessage' = "Subscription Error"
    /\ UNCHANGED simVars
    /\ UNCHANGED <<now, program, conn, connected, identity, players, localPlayer,
                   showJoinDialog, identityRef, localPlayerRef, connectedRef,
                   currentInputRef, lastSentInputState, animationFrameIdRef,
                   lastSendTime, effectConnected, inputListeners, socket,
                   connCalls, subApplied, dbPlayer, registration, updates, lastCall,
                   lastWrite, torn>>

----------------------------------------------------------------------------
(***************************************************************************)
(* App.tsx: registration.                                                  *)
(***************************************************************************)
\* a join handler that registers and hides the dialog without looking at conn
HandleJoinGameUnconnected ==
    /\ program = "App"
    /\ showJoinDialog
    /\ registration' = "pending"
    /\ showJoinDialog' = FALSE
    /\ UNCHANGED simVars
    /\ UNCHANGED <<now, program, conn, connected, identity, statusMessage, players,
                   localPlayer, identityRef, localPlayerRef, connectedRef,
                   currentInputRef, lastSentInputState, animationFrameIdRef,
                   lastSendTime, effectConnected, inputListeners, socket,
                   connCalls, subApplied, dbPlayer, updates, lastCall, lastWrite, torn>>

\* handleJoinGame(username, characterClass), called by the join dialog's submit.
HandleJoinGame ==
    /\ program = "App"
    /\ showJoinDialog
    /\ IF conn = "null"
       THEN UNCHANGED <<registration, showJoinDialog>>
       ELSE /\ registration' = "pending"
            /\ showJoinDialog' = FALSE
    /\ UNCHANGED simVars
    /\ UNCHANGED <<now, program, conn, connected, identity, statusMessage, players,
                   localPlayer, identityRef, localPlayerRef, connectedRef,
                   currentInputRef, lastSentInputState, animationFrameIdRef,
                   lastSendTime, effectConnected, inputListeners, socket,
                   connCalls, subApplied, dbPlayer, updates, lastCall, lastWrite, torn>>

\* The remote service answers the registerPlayer call.
ServiceAnswersRegistration(outcome) ==
    /\ program = "App"
    /\ registration = "pending"
    /\ registration' = outcome
    /\ UNCHANGED simVars
    /\ UNCHANGED <<now, program, conn, connected, identity, statusMessage, players,
                   localPlayer, showJoinDialog, identityRef, localPlayerRef,
                   connectedRef, currentInputRef, lastSentInputState,
                   animationFrameIdRef, lastSendTime, effectConnected,
                   inputListeners, socket, connCalls, subApplied, dbPlayer,
                   updates, lastCall, lastWrite, torn>>

(***************************************************************************)
(* App.tsx: the input handlers.                                            *)
(***************************************************************************)
inputUnchanged ==
    UNCHANGED <<simVars, now, program, conn, connected, identity, statusMessage, players,
                localPlayer, showJoinDialog, identityRef, localPlayerRef,
                connectedRef, lastSentInputState, animationFrameIdRef,
                lastSendTime, effectConnected, inputListeners, socket,
                connCalls, subApplied, dbPlayer, registration, updates, lastCall,
                lastWrite, torn>>

\* a key-down handler that also counts the press in the sequence number
KeyDownInputCounting(input, code, repeat) ==
    IF repeat THEN input
    ELSE IF code \in DOMAIN keyMap
         THEN [input EXCEPT ![keyMap[code]] = TRUE, !.sequence = input.sequence + 1]
         ELSE input

\* currentInputRef.current after handleKeyDown(event)
KeyDownInput(input, code, repeat) ==
    IF repeat THEN input
    ELSE IF code \in DOMAIN keyMap
         THEN IF ~input[keyMap[code]]
              THEN [input EXCEPT ![keyMap[code]] = TRUE]
              ELSE input
         ELSE input

HandleKeyDown(code, repeat) ==
    /\ program = "App"
    /\ inputListeners
    /\ currentInputRef' = KeyDownInput(currentInputRef, code, repeat)
    /\ inputUnchanged

HandleKeyUp(code) ==
    /\ program = "App"
    /\ inputListeners
    /\ currentInputRef' =
          IF code \in DOMAIN keyMap
          THEN IF currentInputRef[keyMap[code]]
               THEN [currentInputRef EXCEPT ![keyMap[code]] = FALSE]
               ELSE currentInputRef
          ELSE currentInputRef
    /\ inputUnchanged

HandleMouseDown(button) ==
    /\ program = "App"
    /\ inputListeners
    /\ currentInputRef' =
          IF button = 0
          THEN IF ~currentInputRef.attack
               THEN [currentInputRef EXCEPT !.attack = TRUE]
               ELSE currentInputRef
          ELSE currentInputRef
    /\ inputUnchanged

HandleMouseUp(button) ==
    /\ program = "App"
    /\ inputListeners
    /\ currentInputRef' =
          IF button = 0
          THEN IF currentInputRef.attack
               THEN [currentInputRef EXCEPT !.attack = FALSE]
               ELSE currentInputRef
          ELSE currentInputRef
    /\ inputUnchanged

(***************************************************************************)
(* App.tsx: the game loop.                                                 *)
(***************************************************************************)
\* The game-loop effect, run by React after a render in which `connected`
\* differs from the value the effect last ran with: the previous run's cleanup,
\* then the effect body with a fresh closure.
GameLoopEffect ==
    /\ program = "App"
    /\ effectConnected # connected
    /\ effectConnected' = connected
    /\ lastSendTime' = 0
    /\ animationFrameIdRef' = IF connected THEN 1 ELSE 0
    /\ UNCHANGED simVars
    /\ UNCHANGED <<now, program, conn, connected, identity, statusMessage, players,
                   localPlayer, showJoinDialog, identityRef, localPlayerRef,
                   connectedRef, currentInputRef, lastSentInputState,
                   inputListeners, socket, connCalls, subApplied, dbPlayer,
                   registration, updates, lastCall, lastWrite, torn>>

\* a loop that sends on every display refresh
SendDueEveryFrame(t, last) == t - last >= 0

\* now - lastSendTime >= INPUT_SEND_INTERVAL
SendDue(t, last) == t - last >= INPUT_SEND_INTERVAL

\* the guard at the top of gameLoop
LoopStops == ~connectedRef \/ conn = "null" \/ identityRef = NoIdentity

\* a game loop that advances the sequence number by two
NextSequenceSkipping(input) == [input EXCEPT !.sequence = input.sequence + 2]

\* currentInputRef.current.sequence += 1
NextSequence(input) == [input EXCEPT !.sequence = input.sequence + 1]

\* gameLoop, the display-refresh callback scheduled by requestAnimationFrame.
gameLoop ==
    /\ program = "App"
    /\ animationFrameIdRef # 0
    /\ IF LoopStops
       THEN /\ animationFrameIdRef' = 0
            /\ UNCHANGED <<currentInputRef, updates, lastCall, lastSentInputState, lastSendTime>>
       ELSE /\ IF SendDue(now, lastSendTime)
               THEN /\ currentInputRef.sequence < MaxSeq
                    /\ currentInputRef' = NextSequence(currentInputRef)
                    /\ sendInput(currentInputRef')
                    /\ lastSendTime' = now
               ELSE UNCHANGED <<currentInputRef, updates, lastCall, lastSentInputState,
                                lastSendTime>>
            /\ animationFrameIdRef' = 1
    /\ UNCHANGED simVars
    /\ UNCHANGED <<now, program, conn, connected, identity, statusMessage, players,
                   localPlayer, showJoinDialog, identityRef, localPlayerRef,
                   connectedRef, effectConnected, inputListeners, socket,
                   connCalls, subApplied, dbPlayer, registration, lastWrite, torn>>

(***************************************************************************)
(* The clock.                                                              *)
(***************************************************************************)
\* main has a continuation to run: every spawn has settled, or the timer of the
\* simulation duration is due.
MainDue ==
    \/ mainPhase = "connecting" /\ \A i \in DOMAIN promise : promise[i] # "pending"
    \/ mainPhase = "running" /\ now >= stopDue

\* For the bots time is read only through the interval timers, which count from
\* the moment they are armed: the clock runs while one is armed.  main resumes
\* from Promise.allSettled in a microtask and from its timer when that is due,
\* before the clock moves on.
AdvanceTime ==
    /\ program = "simulation" =>
          /\ \E i \in DOMAIN state : state[i].tickHandle # 0
          /\ ~MainDue
    /\ now + TimeStep <= MaxTime
    /\ now' = now + TimeStep
    /\ UNCHANGED <<program, appVars, simVars>>

----------------------------------------------------------------------------
(***************************************************************************)
(* simulation.ts                                                           *)
(***************************************************************************)
NUM_CLIENTS == NumBots
\* parseInt(process.argv[3] || '10', 10) * 1000, for a duration argument in seconds
SIMULATION_DURATION_MS(arg) == arg * 1000
\* the duration arguments the driver is started with
DurationArgs == 0..MaxDurationArg
Bots == 1..NUM_CLIENTS

DIRECTIONS == <<"forward", "backward", "left", "right">>

\* Math.floor(Math.random() * n): the draws taken are 0..MaxDraw.
RandomIndex(n) == {k \in 0..(n - 1) : k <= MaxDraw}
\* randomItem(arr)
RandomItems(arr) == {arr[k + 1] : k \in RandomIndex(Len(arr))}

buildInput(dir, seq, sprint) ==
    [forward |-> dir = "forward", backward |-> dir = "backward",
     left |-> dir = "left", right |-> dir = "right",
     sprint |-> sprint, jump |-> FALSE, attack |-> FALSE, castSpell |-> FALSE,
     sequence |-> seq]

\* a label that prefers the sideways flags to forward and backward
animationFromInputSideFirst(input) ==
    IF ~input.forward /\ ~input.backward /\ ~input.left /\ ~input.right THEN "idle"
    ELSE LET prefix == IF input.sprint THEN "run" ELSE "walk"
         IN IF input.left THEN prefix \o "-left"
            ELSE IF input.right THEN prefix \o "-right"
            ELSE IF input.forward THEN prefix \o "-forward"
            ELSE prefix \o "-back"

animationFromInput(input) ==
    IF ~input.forward /\ ~input.backward /\ ~input.left /\ ~input.right THEN "idle"
    ELSE LET prefix == IF input.sprint THEN "run" ELSE "walk"
         IN IF input.forward THEN prefix \o "-forward"
            ELSE IF input.backward THEN prefix \o "-back"
            ELSE IF input.left THEN prefix \o "-left"
            ELSE prefix \o "-right"

\* the state object of spawnClient before the handshake; conn is not set yet
InitialClientState(clientId, dir, draw) ==
    [id |-> clientId, conn |-> "undefined", registered |-> FALSE, sequence |-> 0,
     tickHandle |-> 0, direction |-> dir, dirChangeCountdown |-> 3 + draw,
     rotation |-> "0"]

\* tickClient's early return
TickReturns(st) == st.conn = "undefined" \/ ~st.registered

\* "Change direction periodically": the state after the countdown step
AfterCountdown(st, dir, draw) ==
    LET counted == [st EXCEPT !.dirChangeCountdown = st.dirChangeCountdown - 1]
    IN IF counted.dirChangeCountdown <= 0
       THEN [counted EXCEPT !.direction = dir,
                            !.dirChangeCountdown = 5 + draw,
                            !.rotation = dir]
       ELSE counted

\* a tick that leaves the sequence number as it was
BumpSequenceStuck(st) == st

\* state.sequence += 1
BumpSequence(st) == [st EXCEPT !.sequence = st.sequence + 1]

\* tickClient(state): the state it leaves
TickedState(st, dir, draw) ==
    IF TickReturns(st) THEN st ELSE BumpSequence(AfterCountdown(st, dir, draw))

\* a tick that builds its input from the direction held before the countdown step
TickCallsStaleDirection(st, dir, draw, sprint) ==
    IF TickReturns(st) THEN <<>>
    ELSE LET next == TickedState(st, dir, draw)
             input == buildInput(st.direction, next.sequence, sprint)
         IN <<[input |-> input,
               clientRot |-> next.rotation,
               clientAnimation |-> animationFromInput(input)]>>

\* tickClient(state): the updatePlayerInput calls it makes
TickCalls(st, dir, draw, sprint) ==
    IF TickReturns(st) THEN <<>>
    ELSE LET next == TickedState(st, dir, draw)
             input == buildInput(next.direction, next.sequence, sprint)
         IN <<[input |-> input,
               clientRot |-> next.rotation,
               clientAnimation |-> animationFromInput(input)]>>

Running == program = "simulation" /\ mainPhase # "exited"

\* the calls onConnect makes on the connection
BotOnConnectCalls == <<"onInsert", "subscribe">>

\* onConnect(connection)
BotOnConnect(i) ==
    /\ Running
    /\ botSocket[i] = "connecting"
    /\ botSocket' = [botSocket EXCEPT ![i] = "open"]
    /\ state' = [state EXCEPT ![i].conn = "conn"]
    /\ botCalls' = [botCalls EXCEPT ![i] = @ \o BotOnConnectCalls]
    /\ UNCHANGED <<clients, mainPhase, exitCode, botApplied, botErrored, promise,
                   timeout, tickDue, botRegistration, botUpdates, botLastCall>>
    /\ UNCHANGED <<program, now, appVars, duration, stopDue, redraws>>

\* a callback that leaves the 15 s timer armed
ClearTimeoutForgotten(t) == t

\* clearTimeout(timeout)
ClearTimeout(t) == IF t = "armed" THEN "cleared" ELSE t
\* resolve(value) / reject(reason): a settled promise stays as it is
Settle(p, how) == IF p = "pending" THEN how ELSE p

\* the subscription's onApplied callback
BotOnApplied(i) ==
    /\ Running
    /\ "subscribe" \in Range(botCalls[i])
    /\ ~botApplied[i]
    /\ ~botErrored[i]
    /\ botApplied' = [botApplied EXCEPT ![i] = TRUE]
    /\ botRegistration' = [botRegistration EXCEPT ![i] = "pending"]
    /\ state' = [state EXCEPT ![i].registered = TRUE, ![i].tickHandle = 1]
    /\ tickDue' = [tickDue EXCEPT ![i] = now + INPUT_TICK_INTERVAL_MS]
    /\ timeout' = [timeout EXCEPT ![i] = ClearTimeout(@)]
    /\ promise' = [promise EXCEPT ![i] = Settle(@, "fulfilled")]
    /\ UNCHANGED <<clients, mainPhase, exitCode, botSocket, botCalls, botErrored,
                   botUpdates, botLastCall>>
    /\ UNCHANGED <<program, now, appVars, duration, stopDue, redraws>>

\* the subscription's onError callback
BotOnError(i) ==
    /\ Running
    /\ "subscribe" \in Range(botCalls[i])
    /\ ~botErrored[i]
    /\ ~botApplied[i]
    /\ botErrored' = [botErrored EXCEPT ![i] = TRUE]
    /\ timeout' = [timeout EXCEPT ![i] = ClearTimeout(@)]
    /\ promise' = [promise EXCEPT ![i] = Settle(@, "rejected")]
    /\ UNCHANGED <<state, clients, mainPhase, exitCode, botSocket, botCalls,
                   botApplied, tickDue, botRegistration, botUpdates, botLastCall>>
    /\ UNCHANGED <<program, now, appVars, duration, stopDue, redraws>>

\* a disconnect that also takes the registration back
DisconnectedStateUnregistered(st) ==
    IF st.tickHandle # 0 THEN [st EXCEPT !.tickHandle = 0, !.registered = FALSE] ELSE st

\* the state object after onDisconnect
DisconnectedState(st) ==
    IF st.tickHandle # 0 THEN [st EXCEPT !.tickHandle = 0] ELSE st

\* onDisconnect(ctx, reason)
BotOnDisconnect(i) ==
    /\ Running
    /\ botSocket[i] = "open"
    /\ botSocket' = [botSocket EXCEPT ![i] = "closed"]
    /\ state' = [state EXCEPT ![i] = DisconnectedState(@)]
    /\ UNCHANGED <<clients, mainPhase, exitCode, botCalls, botApplied, botErrored,
                   promise, timeout, tickDue, botRegistration, botUpdates, botLastCall>>
    /\ UNCHANGED <<program, now, appVars, duration, stopDue, redraws>>

\* the 15 s timer of spawnClient fires
BotTimeout(i) ==
    /\ Running
    /\ timeout[i] = "armed"
    /\ timeout' = [timeout EXCEPT ![i] = "fired"]
    /\ promise' = [promise EXCEPT ![i] = Settle(@, "rejected")]
    /\ UNCHANGED <<state, clients, mainPhase, exitCode, botSocket, botCalls,
                   botApplied, botErrored, tickDue, botRegistration, botUpdates, botLastCall>>
    /\ UNCHANGED <<program, now, appVars, duration, stopDue, redraws>>

\* ticks made by all the bots together; MaxSeq bounds them
TicksSoFar ==
    LET T[k \in 0..NUM_CLIENTS] == IF k = 0 THEN 0 ELSE T[k - 1] + state[k].sequence
    IN T[NUM_CLIENTS]

\* tickClient re-draws the direction at this tick
Redrawn(st) == ~TickReturns(st) /\ st.dirChangeCountdown - 1 <= 0

\* tickClient(state[i]), with the draws it takes
TickClient(i, dir, draw, sprint) ==
    /\ state' = [state EXCEPT ![i] = TickedState(@, dir, draw)]
    /\ LET calls == TickCalls(state[i], dir, draw, sprint)
       IN /\ botUpdates' = [botUpdates EXCEPT ![i] =
                                @ \o [k \in DOMAIN calls |-> Stamp(calls[k].input.sequence)]]
          /\ botLastCall' = [botLastCall EXCEPT ![i] =
                                IF calls = <<>> THEN @ ELSE calls[Len(calls)]]
    /\ redraws' = [redraws EXCEPT ![i] =
                       IF Redrawn(state[i]) THEN Append(@, state'[i].sequence) ELSE @]

\* the interval timer armed by onApplied fires: tickClient(state)
BotTick(i, dir, draw, sprint) ==
    /\ Running
    /\ state[i].tickHandle # 0
    /\ now >= tickDue[i]
    /\ TicksSoFar < MaxSeq
    /\ TickClient(i, dir, draw, sprint)
    /\ tickDue' = [tickDue EXCEPT ![i] = now + INPUT_TICK_INTERVAL_MS]
    /\ UNCHANGED <<clients, mainPhase, exitCode, botSocket, botCalls, botApplied,
                   botErrored, promise, timeout, botRegistration>>
    /\ UNCHANGED <<program, now, appVars, duration, stopDue>>

\* The remote service answers the bot's registerPlayer call.
BotServiceAnswers(i, outcome) ==
    /\ Running
    /\ botRegistration[i] = "pending"
    /\ botRegistration' = [botRegistration EXCEPT ![i] = outcome]
    /\ UNCHANGED <<state, clients, mainPhase, exitCode, botSocket, botCalls,
                   botApplied, botErrored, promise, timeout, tickDue, botUpdates, botLastCall>>
    /\ UNCHANGED <<program, now, appVars, duration, stopDue, redraws>>

\* the results collected as Promise.all would: nothing after the first rejection
FulfilledUntilRejection(n) ==
    LET F[k \in 0..n] ==
            IF k = 0 THEN <<>>
            ELSE IF \A j \in 1..k : promise[j] = "fulfilled" THEN Append(F[k - 1], k)
                 ELSE F[k - 1]
    IN F[n]

\* the fulfilled results, in spawn order
Fulfilled(n) ==
    LET F[k \in 0..n] ==
            IF k = 0 THEN <<>>
            ELSE IF promise[k] = "fulfilled" THEN Append(F[k - 1], k) ELSE F[k - 1]
    IN F[n]

\* main resumes after Promise.allSettled
MainSettled ==
    /\ Running
    /\ mainPhase = "connecting"
    /\ \A i \in Bots : promise[i] # "pending"
    /\ clients' = Fulfilled(NUM_CLIENTS)
    /\ IF Len(clients') = 0
       THEN mainPhase' = "exited" /\ exitCode' = 1 /\ UNCHANGED stopDue
       ELSE /\ mainPhase' = "running"
            /\ stopDue' = now + duration
            /\ UNCHANGED exitCode
    /\ UNCHANGED <<state, botSocket, botCalls, botApplied, botErrored, promise,
                   timeout, tickDue, botRegistration, botUpdates, botLastCall>>
    /\ UNCHANGED <<program, now, appVars, duration, redraws>>

\* main's clean-up loop over `clients`
CleanedUp(sts, cs) ==
    [i \in DOMAIN sts |->
        IF i \in Range(cs) /\ sts[i].tickHandle # 0
        THEN [sts[i] EXCEPT !.tickHandle = 0]
        ELSE sts[i]]

\* main resumes once the timer of the simulation duration has fired: clean up and exit
MainStop ==
    /\ Running
    /\ mainPhase = "running"
    /\ now >= stopDue
    /\ state' = CleanedUp(state, clients)
    /\ mainPhase' = "exited"
    /\ exitCode' = 0
    /\ UNCHANGED <<clients, botSocket, botCalls, botApplied, botErrored, promise,
                   timeout, tickDue, botRegistration, botUpdates, botLastCall>>
    /\ UNCHANGED <<program, now, appVars, duration, stopDue, redraws>>

SimNext ==
    \/ \E i \in Bots : BotOnConnect(i)
    \/ \E i \in Bots : BotOnApplied(i)
    \/ \E i \in Bots : BotOnError(i)
    \/ \E i \in Bots : BotOnDisconnect(i)
    \/ \E i \in Bots : BotTimeout(i)
    \/ \E i \in Bots, dir \in RandomItems(DIRECTIONS), draw \in RandomIndex(20),
          sprint \in BOOLEAN : BotTick(i, dir, draw, sprint)
    \/ \E i \in Bots, outcome \in {"accepted", "rejected"} : BotServiceAnswers(i, outcome)
    \/ MainSettled
    \/ MainStop

----------------------------------------------------------------------------
Backfills ==
    UNION {[S -> 1..MaxVal] : S \in SUBSET Identities}

\* App.tsx after the first render, before its effects have run.
AppStart ==
    /\ conn = "null"
    /\ connected = FALSE
    /\ identity = NoIdentity
    /\ statusMessage = "Connecting..."
    /\ players = EmptyMap
    /\ localPlayer = NoPlayer
    /\ showJoinDialog = FALSE
    /\ identityRef = NoIdentity
    /\ localPlayerRef = NoPlayer
    /\ connectedRef = FALSE
    /\ currentInputRef = InitialInput
    /\ lastSentInputState = EmptyObject
    /\ animationFrameIdRef = 0
    /\ lastSendTime = 0
    /\ effectConnected = FALSE
    /\ inputListeners = FALSE
    /\ socket = "idle"
    /\ connCalls = <<>>
    /\ subApplied = FALSE
    /\ dbPlayer = EmptyMap
    /\ registration = "none"
    /\ updates = <<>>
    /\ lastCall = NoCall
    /\ lastWrite = [i \in Identities |-> NoPlayer]
    /\ torn = FALSE

\* simulation.ts after main has called spawnClient for every bot.
SimStart(dirs, draws) ==
    /\ state = [i \in Bots |-> InitialClientState(i, dirs[i], draws[i])]
    /\ clients = <<>>
    /\ mainPhase = "connecting"
    /\ exitCode = -1
    /\ stopDue = -1
    /\ botSocket = [i \in Bots |-> "connecting"]
    /\ botCalls = [i \in Bots |-> <<>>]
    /\ botApplied = [i \in Bots |-> FALSE]
    /\ botErrored = [i \in Bots |-> FALSE]
    /\ promise = [i \in Bots |-> "pending"]
    /\ timeout = [i \in Bots |-> "armed"]
    /\ tickDue = [i \in Bots |-> 0]
    /\ botRegistration = [i \in Bots |-> "none"]
    /\ botUpdates = [i \in Bots |-> <<>>]
    /\ botLastCall = [i \in Bots |-> NoBotCall]
    /\ redraws = [i \in Bots |-> <<>>]

\* The interactive client runs; the bot driver's variables stay as they are.
InitApp ==
    /\ program = "App"
    /\ now = 0
    /\ AppStart
    /\ duration = SIMULATION_DURATION_MS(0)
    /\ SimStart([i \in Bots |-> "forward"], [i \in Bots |-> 0])

\* The bot driver runs; the interactive client's variables stay as they are.
InitSim ==
    /\ program = "simulation"
    /\ now = 0
    /\ AppStart
    /\ \E arg \in DurationArgs : duration = SIMULATION_DURATION_MS(arg)
    /\ \E dirs \in [Bots -> RandomItems(DIRECTIONS)], draws \in [Bots -> RandomIndex(10)] :
          SimStart(dirs, draws)

Init == InitApp \/ InitSim

AppNext ==
    \/ ConnectionEffect
    \/ \E id \in AssignedIdentities : OnConnect(id)
    \/ OnDisconnect
    \/ \E player \in Rows : OnInsert(player)
    \/ \E oldPlayer \in Rows, newPlayer \in Rows : OnUpdate(oldPlayer, newPlayer)
    \/ \E player \in Rows : OnDelete(player)
    \/ \E b \in Backfills :
          OnSubscriptionApplied([id \in DOMAIN b |-> PlayerData(id, b[id])])
    \/ OnSubscriptionError
    \/ HandleJoinGame
    \/ \E outcome \in {"accepted", "rejected"} : ServiceAnswersRegistration(outcome)
    \/ \E code \in PressedCodes, repeat \in BOOLEAN : HandleKeyDown(code, repeat)
    \/ \E code \in PressedCodes : HandleKeyUp(code)
    \/ \E button \in MouseButtons : HandleMouseDown(button)
    \/ \E button \in MouseButtons : HandleMouseUp(button)
    \/ GameLoopEffect
    \/ gameLoop

Next == AppNext \/ SimNext \/ AdvanceTime
NextApp == AppNext \/ AdvanceTime
NextSim == SimNext \/ AdvanceTime

\* Either program.
Spec == Init /\ [][Next]_vars
\* The interactive client alone.
SpecApp == InitApp /\ [][NextApp]_vars
\* The bot driver alone.
SpecSim == InitSim /\ [][NextSim]_vars
\* The interactive client with a display that keeps refreshing, a clock that
\* keeps running and React running the effects of every render.
SpecAppFair ==
    /\ SpecApp
    /\ WF_vars(gameLoop)
    /\ WF_vars(GameLoopEffect)
    /\ WF_vars(AdvanceTime)

----------------------------------------------------------------------------
(***************************************************************************)
(* sendInput on its own: the snapshots are drawn, the session is connected,*)
(* and sendInput(currentInputRef.current) is called at any moment between  *)
(* the input handlers.                                                     *)
(***************************************************************************)
\* snapshots of the input state: two of the flags vary
Snapshots ==
    {[InitialInput EXCEPT !.forward = f, !.attack = a, !.sequence = n] :
        f \in BOOLEAN, a \in BOOLEAN, n \in 0..MaxSeq}

\* the interactive client after onConnect, with a current and a last-sent snapshot
InitSendInput ==
    /\ program = "App"
    /\ now = 0
    /\ conn = "conn"
    /\ connected = TRUE
    /\ \E id \in AssignedIdentities : identity = id /\ identityRef = id
    /\ statusMessage = "Connected as"
    /\ players = EmptyMap
    /\ localPlayer = NoPlayer
    /\ showJoinDialog = TRUE
    /\ localPlayerRef = NoPlayer
    /\ connectedRef = TRUE
    /\ currentInputRef \in Snapshots
    /\ lastSentInputState \in {EmptyObject} \cup
                               {l \in Snapshots : l.sequence <= currentInputRef.sequence}
    /\ animationFrameIdRef = 1
    /\ lastSendTime = 0
    /\ effectConnected = TRUE
    /\ inputListeners = TRUE
    /\ socket = "open"
    /\ connCalls = OnConnectCalls(conn)
    /\ subApplied = FALSE
    /\ dbPlayer = EmptyMap
    /\ registration = "none"
    /\ updates = <<>>
    /\ lastCall = NoCall
    /\ lastWrite = [i \in Identities |-> NoPlayer]
    /\ torn = FALSE
    /\ duration = SIMULATION_DURATION_MS(0)
    /\ SimStart([i \in Bots |-> "forward"], [i \in Bots |-> 0])

\* sendInputRef.current(currentInputRef.current)
CallSendInput ==
    /\ program = "App"
    /\ Len(updates) < MaxSeq
    /\ sendInput(currentInputRef)
    /\ UNCHANGED simVars
    /\ UNCHANGED <<now, program, conn, connected, identity, statusMessage, players,
                   localPlayer, showJoinDialog, identityRef, localPlayerRef,
                   connectedRef, currentInputRef, animationFrameIdRef, lastSendTime,
                   effectConnected, inputListeners, socket, connCalls, subApplied,
                   dbPlayer, registration, lastWrite, torn>>

NextSendInput ==
    \/ CallSendInput
    \/ \E code \in PressedCodes, repeat \in BOOLEAN : HandleKeyDown(code, repeat)
    \/ \E code \in PressedCodes : HandleKeyUp(code)
    \/ \E button \in MouseButtons : HandleMouseDown(button)
    \/ \E button \in MouseButtons : HandleMouseUp(button)

\* sendInput called on drawn snapshots.
SpecSendInput == InitSendInput /\ [][NextSendInput]_vars

----------------------------------------------------------------------------
(***************************************************************************)
(* animationFromInput on its own: the label of every InputState.           *)
(***************************************************************************)
\* every combination of the eight flags
AllFlagInputs ==
    {[k \in InputKeys |-> IF k = "sequence" THEN 0 ELSE k \in on] : on \in SUBSET FlagKeys}

\* const clientAnimation = animationFromInput(input), for a drawn input
ApplyAnimationFromInput(i, input) ==
    /\ program = "simulation"
    /\ botLastCall' = [botLastCall EXCEPT ![i] =
                          [input |-> input, clientRot |-> "0",
                           clientAnimation |-> animationFromInput(input)]]
    /\ UNCHANGED <<program, now, appVars, state, clients, mainPhase, exitCode,
                   duration, stopDue, botSocket, botCalls, botApplied, botErrored,
                   promise, timeout, tickDue, botRegistration, botUpdates, redraws>>

NextAnimationFromInput ==
    \E input \in AllFlagInputs : ApplyAnimationFromInput(1, input)

\* animationFromInput called on drawn inputs.
SpecAnimationFromInput == InitSim /\ [][NextAnimationFromInput]_vars

----------------------------------------------------------------------------
(***************************************************************************)
(* determineAnimation on its own: the label of every InputState.           *)
(***************************************************************************)
\* const currentAnimation = determineAnimation(currentInputState), for a drawn input
ApplyDetermineAnimation(input) ==
    /\ program = "App"
    /\ lastCall' = UpdateCall(input)
    /\ UNCHANGED simVars
    /\ UNCHANGED <<now, program, conn, connected, identity, statusMessage, players,
                   localPlayer, showJoinDialog, identityRef, localPlayerRef,
                   connectedRef, currentInputRef, lastSentInputState,
                   animationFrameIdRef, lastSendTime, effectConnected,
                   inputListeners, socket, connCalls, subApplied, dbPlayer,
                   registration, updates, lastWrite, torn>>

NextDetermineAnimation ==
    \E input \in AllFlagInputs : ApplyDetermineAnimation(input)

\* determineAnimation called on drawn inputs.
SpecDetermineAnimation == InitApp /\ [][NextDetermineAnimation]_vars

----------------------------------------------------------------------------
(***************************************************************************)
(* tickClient on its own: one session connects, its subscription is        *)
(* applied, and its interval timer fires tick after tick; the ticks are     *)
(* counted, not timed.                                                     *)
(***************************************************************************)
\* Math.floor(Math.random() * n) for the countdown
HoldDraws(n) == {k \in 0..(n - 1) : k <= MaxHoldDraw}

\* the interval timer of session i fires
HoldTick(i, dir, draw, sprint) ==
    /\ Running
    /\ state[i].tickHandle # 0
    /\ state[i].sequence < MaxHoldTicks
    /\ TickClient(i, dir, draw, sprint)
    /\ UNCHANGED <<clients, mainPhase, exitCode, botSocket, botCalls, botApplied,
                   botErrored, promise, timeout, tickDue, botRegistration>>
    /\ UNCHANGED <<program, now, appVars, duration, stopDue>>

NextTickClient ==
    \/ BotOnConnect(1)
    \/ BotOnApplied(1)
    \/ \E dir \in RandomItems(DIRECTIONS), draw \in HoldDraws(20), sprint \in BOOLEAN :
          HoldTick(1, dir, draw, sprint)

\* One bot session ticking.
SpecTickClient == InitSim /\ [][NextTickClient]_vars

\* The bot driver with every direction drawn, at spawn and at a re-draw.
InitDirections ==
    /\ program = "simulation"
    /\ now = 0
    /\ AppStart
    /\ \E arg \in DurationArgs : duration = SIMULATION_DURATION_MS(arg)
    /\ \E dirs \in [Bots -> Range(DIRECTIONS)], draws \in [Bots -> RandomIndex(10)] :
          SimStart(dirs, draws)

NextDirections ==
    \/ BotOnConnect(1)
    \/ BotOnApplied(1)
    \/ \E dir \in Range(DIRECTIONS), draw \in RandomIndex(20), sprint \in BOOLEAN :
          HoldTick(1, dir, draw, sprint)

\* The interactive client with every mapped key, one unmapped key and both mouse
\* buttons pressed and released between the ticks of the game loop.
EventCodes == DOMAIN keyMap \cup {"KeyQ"}

NextControls ==
    \/ ConnectionEffect
    \/ \E id \in AssignedIdentities : OnConnect(id)
    \/ \E code \in EventCodes, repeat \in BOOLEAN : HandleKeyDown(code, repeat)
    \/ \E code \in EventCodes : HandleKeyUp(code)
    \/ \E button \in MouseButtons : HandleMouseDown(button)
    \/ \E button \in MouseButtons : HandleMouseUp(button)
    \/ GameLoopEffect
    \/ gameLoop
    \/ AdvanceTime

\* The input handlers and the game loop of a connected client.
SpecControls == InitApp /\ [][NextControls]_vars

\* One bot session ticking through every direction.
SpecDirections == InitDirections /\ [][NextDirections]_vars

----------------------------------------------------------------------------
(***************************************************************************)
(* Properties.                                                             *)
(***************************************************************************)
Increasing(log) == \A k \in 1..(Len(log) - 1) : log[k].sequence < log[k + 1].sequence

\* C1: in every session, of the interactive client or of a bot, the sequence
\* numbers of successive updatePlayerInput calls are strictly increasing.
C1_SequenceStrictlyIncreasing ==
    /\ Increasing(updates)
    /\ \A i \in Bots : Increasing(botUpdates[i])

C1_Witness == Len(updates) >= 2 /\ updates[2].sequence > updates[1].sequence

Precedes(calls, first, second) ==
    \A k \in DOMAIN calls :
        calls[k] = second => \E j \in 1..(k - 1) : calls[j] = first

\* C2: on a connection of either client the subscription is issued only after
\* the player-table callbacks have been attached to it.
C2_CallbacksBeforeSubscription ==
    /\ \A cb \in {"onInsert", "onUpdate", "onDelete"} : Precedes(connCalls, cb, "subscribe")
    /\ \A i \in Bots : Precedes(botCalls[i], "onInsert", "subscribe")

C2_Witness == "subscribe" \in Range(connCalls) /\ "onInsert" \in Range(connCalls)

\* C3 (as claimed): the interactive client transmits updatePlayerInput only once
\* its registerPlayer call has been issued and accepted.
C3_NoUpdateBeforeRegistered ==
    Len(updates) > 0 => registration = "accepted"

\* C4 (as claimed): a bot transmits updatePlayerInput only once the remote service
\* has accepted its registerPlayer call; never while it is pending or rejected.
C4_BotTicksOnlyOnceAccepted ==
    \A i \in Bots : Len(botUpdates[i]) > 0 => botRegistration[i] = "accepted"

\* C5 (as claimed): after a session's onDisconnect has run it transmits no
\* further updatePlayerInput, and a bot has no interval timer armed.
C5_NoSendAfterDisconnect ==
    [][/\ torn => updates' = updates
       /\ \A i \in Bots :
             botSocket[i] = "closed" =>
                 /\ botUpdates'[i] = botUpdates[i]
                 /\ state'[i].tickHandle = 0]_vars

\* The interactive client's half of C5, which the code keeps.
C5_AppNoSendAfterDisconnect == [][torn => updates' = updates]_vars

\* C6 (as claimed): once onDisconnect has run the player map stays empty, the
\* local-player alias and the identity stay null and connected stays false.
C6_TornDownStaysCleared ==
    torn => /\ players = EmptyMap
            /\ localPlayer = NoPlayer
            /\ identity = NoIdentity
            /\ ~connected

\* What the code keeps of C6: all four hold right after onDisconnect, and the
\* alias, the identity and the connected flag stay cleared ever after.
C6_AliasStaysCleared ==
    torn => /\ localPlayer = NoPlayer
            /\ localPlayerRef = NoPlayer
            /\ identity = NoIdentity
            /\ ~connected

\* at most W/50 + 1 calls in any window of W ms that starts and ends at a call
RateLimited(log) ==
    \A k \in DOMAIN log : \A l \in DOMAIN log :
        k < l => /\ log[l].at - log[k].at >= (l - k) * INPUT_SEND_INTERVAL
                 /\ l - k + 1 <= ((log[l].at - log[k].at) \div INPUT_SEND_INTERVAL) + 1

\* C7: two consecutive updatePlayerInput calls of a session are at least 50 ms
\* apart, so a window of W ms holds at most W/50 + 1 of them, however often the
\* display-refresh callback runs.
C7_RateLimit ==
    /\ RateLimited(updates)
    /\ \A i \in Bots : RateLimited(botUpdates[i])

C7_Witness ==
    /\ Len(updates) >= 2
    /\ updates[2].at - updates[1].at = INPUT_SEND_INTERVAL

\* the clock has stopped short of the next send
ClockRanOut == now + TimeStep > MaxTime /\ ~SendDue(now, lastSendTime)

\* C8: while the interactive session stays connected the game loop reschedules
\* itself, every iteration at which 50 ms have elapsed increments the sequence
\* and transmits exactly one update carrying it, and under a fair display
\* refresh another transmission always follows.
C8_LoopKeepsSending ==
    /\ [][(gameLoop /\ ~LoopStops) => animationFrameIdRef' # 0]_vars
    /\ [][(gameLoop /\ ~LoopStops /\ SendDue(now, lastSendTime)) =>
             /\ currentInputRef'.sequence = currentInputRef.sequence + 1
             /\ Len(updates') = Len(updates) + 1
             /\ updates'[Len(updates')].sequence = currentInputRef'.sequence
             /\ lastCall'.input = currentInputRef']_vars
    /\ \A n \in 0..(MaxSeq - 1) :
          [](connectedRef /\ Len(updates) = n
                => <>(~connectedRef \/ Len(updates) > n \/ ClockRanOut))

C8_Witness == connectedRef /\ Len(updates) = MaxSeq

\* C9: the player map holds, for every identity, the row of the latest insert
\* or update notification for it, and a notification for one identity leaves
\* the entries of the other identities as they were.
C9_LastWriteWins ==
    /\ [](\A id \in Identities :
            lastWrite[id] # NoPlayer =>
                id \in DOMAIN players /\ players[id] = lastWrite[id])
    /\ [][\A id \in Identities :
            (lastWrite'[id] # lastWrite[id] /\ lastWrite'[id] # NoPlayer) =>
                \A other \in Identities \ {id} :
                    /\ (other \in DOMAIN players') = (other \in DOMAIN players)
                    /\ other \in DOMAIN players => players'[other] = players[other]]_vars

C9_Witness ==
    \E id \in Identities :
        /\ lastWrite[id] = PlayerData(id, 2)
        /\ id \in DOMAIN players
        /\ players[id] = PlayerData(id, 2)
        /\ Cardinality(DOMAIN players) = 2

\* C10: a delete notification removes that identity's entry; when the identity
\* is the session's own the alias becomes null and the status text 'Local player
\* deleted!', otherwise alias and status text stay as they were.
C10_DeleteEffect ==
    [][\A id \in Identities :
          (id \in DOMAIN dbPlayer /\ id \notin DOMAIN dbPlayer') =>
              /\ id \notin DOMAIN players'
              /\ \A other \in (DOMAIN players) \ {id} :
                    other \in DOMAIN players' /\ players'[other] = players[other]
              /\ IF IsLocal(id)
                 THEN /\ localPlayer' = NoPlayer
                      /\ localPlayerRef' = NoPlayer
                      /\ statusMessage' = "Local player deleted!"
                 ELSE /\ localPlayer' = localPlayer
                      /\ localPlayerRef' = localPlayerRef
                      /\ statusMessage' = statusMessage]_vars

C10_Witness ==
    /\ statusMessage = "Local player deleted!"
    /\ localPlayer = NoPlayer
    /\ identityRef # NoIdentity
    /\ identityRef \notin DOMAIN players
    /\ Cardinality(DOMAIN players) = 1

\* C11: the backfill is idempotent.  When onSubscriptionApplied runs with a map
\* that has entries it changes neither the map nor the local-player alias, and
\* with a non-empty client cache, running it once more on the state it left,
\* with the same rows, yields the same map and alias again.
C11_BackfillIdempotent ==
    [][(~subApplied /\ subApplied') =>
          /\ DOMAIN players # {} =>
                /\ players' = players
                /\ localPlayer' = localPlayer
                /\ localPlayerRef' = localPlayerRef
          /\ DOMAIN dbPlayer' # {} =>
                /\ BackfilledPlayers(players', conn', dbPlayer') = players'
                /\ BackfilledLocal(players', conn', dbPlayer', identityRef', localPlayer')
                      = localPlayer']_vars

\* the backfill ran on a map that had entries and left it as it was
C11_Witness ==
    /\ subApplied
    /\ ~torn
    /\ DOMAIN players # {}
    /\ \E id \in DOMAIN dbPlayer : id \notin DOMAIN players

\* C12 (as claimed): the initial backfill is merged.  When onSubscriptionApplied
\* has run on a live session, every row in the client cache of the player table
\* at that moment has an entry in the player map, also when some of the rows were
\* already put there by insert notifications.
C12_BackfillMerged ==
    [][(~subApplied /\ subApplied' /\ ~torn) =>
          \A id \in DOMAIN dbPlayer' :
              id \in DOMAIN players' /\ players'[id] = dbPlayer'[id]]_vars

\* C13: disconnected is terminal.  Once a session's connection has gone down no
\* new handshake is started for it and it never becomes connected again: the
\* interactive client keeps its handle null and its connected flag false, and a
\* bot's connection stays closed.
C13_DisconnectedIsTerminal ==
    [][/\ socket = "closed" =>
             /\ socket' = "closed"
             /\ conn' = "null"
             /\ ~connected'
             /\ ~connectedRef'
       /\ \A i \in Bots : botSocket[i] = "closed" => botSocket'[i] = "closed"]_vars

\* the session was connected, transmitted, went down, and the game-loop effect
\* has run its cleanup since
C13_Witness ==
    /\ socket = "closed"
    /\ torn
    /\ Len(updates) > 0
    /\ ~effectConnected
    /\ animationFrameIdRef = 0

Succeeded == {i \in Bots : promise[i] = "fulfilled"}

\* C14: a bot session's timeout or subscription error is isolated.  The step that
\* rejects one session's spawn leaves every other session and the driver as they
\* were, the driver waits until every spawn has settled, a failed session leaves
\* the callbacks of the others enabled, and after settling the driver holds
\* exactly the sessions that succeeded, exiting with code 1 only when none did.
C14_SessionErrorsIsolated ==
    /\ [][\A j \in Bots :
             (promise[j] = "pending" /\ promise'[j] = "rejected") =>
                 /\ mainPhase' = mainPhase
                 /\ exitCode' = exitCode
                 /\ \A i \in Bots \ {j} :
                       /\ state'[i] = state[i]
                       /\ promise'[i] = promise[i]
                       /\ timeout'[i] = timeout[i]
                       /\ tickDue'[i] = tickDue[i]
                       /\ botSocket'[i] = botSocket[i]]_vars
    /\ [](program = "simulation" =>
            /\ (\E i \in Bots : promise[i] = "pending") => mainPhase = "connecting"
            /\ \A i \in Bots :
                  ((\E j \in Bots \ {i} : promise[j] = "rejected") /\ mainPhase = "connecting") =>
                      /\ botSocket[i] = "connecting" => ENABLED BotOnConnect(i)
                      /\ ("subscribe" \in Range(botCalls[i]) /\ ~botApplied[i] /\ ~botErrored[i])
                            => ENABLED BotOnApplied(i)
            /\ mainPhase # "connecting" =>
                  /\ Range(clients) = Succeeded
                  /\ Len(clients) = Cardinality(Succeeded)
                  /\ (exitCode = 1) <=> (Len(clients) = 0)
                  /\ Len(clients) = 0 => mainPhase = "exited")

\* one session timed out, the other was collected and has ticked
C14_Witness ==
    /\ mainPhase = "running"
    /\ \E i \in Bots, j \in Bots :
          /\ timeout[j] = "fired"
          /\ promise[j] = "rejected"
          /\ clients = <<i>>
          /\ Len(botUpdates[i]) > 0

\* C15 (as claimed): when the driver's shutdown cleanup has completed no session
\* it spawned has an interval timer armed, a session whose spawn was rejected
\* and whose subscription was applied afterwards included.
C15_NoTimerAfterCleanup ==
    (program = "simulation" /\ mainPhase = "exited" /\ exitCode = 0) =>
        \A i \in Bots : state[i].tickHandle = 0

\* C16 (as claimed): in a run of duration D ms that ended with the shutdown
\* cleanup, every session the driver collected has made floor(D/50) ticks, give
\* or take one, however long the other sessions took to settle.
C16_TicksPerSession ==
    (program = "simulation" /\ mainPhase = "exited" /\ exitCode = 0) =>
        \A i \in Range(clients) :
            /\ state[i].sequence <= (duration \div INPUT_TICK_INTERVAL_MS) + 1
            /\ state[i].sequence >= (duration \div INPUT_TICK_INTERVAL_MS) - 1

\* C17: the subscription-error callback of the interactive client changes the
\* status text only: the connected flag, the identity, the player map, the
\* local-player alias, the connection handle and the scheduled game loop are
\* left as they were.
C17_SubscriptionErrorFrame ==
    [][OnSubscriptionError =>
          /\ statusMessage' = "Subscription Error"
          /\ UNCHANGED <<connected, connectedRef, identity, identityRef, players,
                         localPlayer, localPlayerRef, conn, animationFrameIdRef,
                         effectConnected, lastSendTime, currentInputRef,
                         lastSentInputState, updates>>]_vars

\* the error arrived on an established session with players and a running loop
C17_Witness ==
    /\ statusMessage = "Subscription Error"
    /\ connected
    /\ connectedRef
    /\ animationFrameIdRef # 0
    /\ localPlayer # NoPlayer
    /\ Cardinality(DOMAIN players) = 2

\* C18: the spawn of a bot session is reported once.  While it is unsettled its
\* 15 s timer is armed; when the timer fires first the spawn is rejected, and it
\* stays rejected whatever callback comes later; when the subscription is
\* applied first the spawn is fulfilled, the timer is cleared and never fires;
\* and no second handshake is started for the session.
C18_SpawnReportedOnce ==
    /\ [](program = "simulation" =>
            \A i \in Bots :
                /\ promise[i] = "pending" => timeout[i] = "armed"
                /\ timeout[i] = "fired" => promise[i] = "rejected"
                /\ promise[i] = "fulfilled" => timeout[i] = "cleared" /\ botApplied[i])
    /\ [][\A i \in Bots :
             /\ promise[i] # "pending" => promise'[i] = promise[i]
             /\ (timeout[i] = "armed" /\ timeout'[i] = "fired") => promise'[i] = "rejected"
             /\ timeout[i] # "armed" => timeout'[i] = timeout[i]
             /\ botSocket[i] # "connecting" => botSocket'[i] # "connecting"
             /\ Len(botCalls'[i]) <= Len(BotOnConnectCalls)]_vars

\* one session timed out and had its subscription applied afterwards, another
\* was fulfilled in time
C18_Witness ==
    \E i \in Bots, j \in Bots :
        /\ timeout[i] = "fired"
        /\ promise[i] = "rejected"
        /\ botApplied[i]
        /\ promise[j] = "fulfilled"
        /\ timeout[j] = "cleared"

\* the current snapshot differs from the last-sent one in a flag or in the
\* sequence number
Differs(cur, lastSent) == \E key \in InputKeys : StrictNotEqual(cur, lastSent, key)

\* C19: on a connected session sendInput transmits exactly when the snapshot
\* differs from the last-sent one in a flag or in the sequence number.  When it
\* does not transmit, the last-sent snapshot stays; when it transmits, the call
\* carries the snapshot and the last-sent snapshot becomes equal to it, so that
\* a second call with the same snapshot transmits nothing; and a later change
\* of an input flag leaves the last-sent snapshot as it was.
C19_SendInputGate ==
    /\ [][(CallSendInput /\ SendInputReady) =>
             IF Differs(currentInputRef, lastSentInputState)
             THEN /\ updates' = Append(updates, Stamp(currentInputRef.sequence))
                  /\ lastCall'.input = currentInputRef
                  /\ lastSentInputState' = currentInputRef
                  /\ ~Differs(currentInputRef', lastSentInputState')
             ELSE /\ updates' = updates
                  /\ lastSentInputState' = lastSentInputState]_vars
    /\ [][currentInputRef' # currentInputRef =>
             lastSentInputState' = lastSentInputState]_vars

\* sendInput has transmitted a snapshot, and a flag was changed afterwards
C19_Witness ==
    /\ Len(updates) = 1
    /\ lastSentInputState = lastCall.input
    /\ lastSentInputState.sequence = currentInputRef.sequence
    /\ lastSentInputState.forward # currentInputRef.forward

Contiguous(log) == \A k \in DOMAIN log : log[k].sequence = k

\* C20: sequence numbers are contiguous from 1.  In every session the k-th
\* updatePlayerInput call carries sequence number k, a bot's counter equals the
\* number of its calls, and in the interactive client, outside gameLoop, the
\* last-sent sequence number equals the current one once a call has been made.
C20_SequenceContiguous ==
    /\ Contiguous(updates)
    /\ currentInputRef.sequence = Len(updates)
    /\ IF Len(updates) = 0
       THEN lastSentInputState = EmptyObject
       ELSE lastSentInputState.sequence = currentInputRef.sequence
    /\ \A i \in Bots :
          /\ Contiguous(botUpdates[i])
          /\ state[i].sequence = Len(botUpdates[i])

\* the interactive client has made its first two calls, flags changed since
C20_Witness ==
    /\ Len(updates) = 2
    /\ updates[1].sequence = 1
    /\ lastCall.input.sequence = 2
    /\ lastSentInputState.sequence = 2
    /\ currentInputRef.forward # lastSentInputState.forward

\* the label the movement and sprint flags call for: no movement flag gives
\* 'idle', otherwise prefix and the first set flag of forward, backward, left, right
LabelByPriority(forward, backward, left, right, sprint) ==
    IF ~(forward \/ backward \/ left \/ right) THEN "idle"
    ELSE (IF sprint THEN "run" ELSE "walk") \o "-" \o
         (CASE forward -> "forward"
            [] ~forward /\ backward -> "back"
            [] ~forward /\ ~backward /\ left -> "left"
            [] OTHER -> "right")

\* C21: the bot's animation label is a function of the four movement flags and
\* sprint only: 'idle' when no movement flag is set, otherwise 'run' or 'walk'
\* by sprint, then the direction by the priority forward, backward, left,
\* right; for every combination of the flags.
C21_BotAnimationLabel ==
    \A i \in Bots :
        botLastCall[i].clientAnimation # "none" =>
            LET input == botLastCall[i].input
            IN botLastCall[i].clientAnimation =
                   LabelByPriority(input.forward, input.backward, input.left,
                                   input.right, input.sprint)

\* a label was derived for an input with several movement flags and the other
\* action flags set
C21_Witness ==
    /\ botLastCall[1].clientAnimation = "run-back"
    /\ botLastCall[1].input.left
    /\ botLastCall[1].input.right
    /\ botLastCall[1].input.jump
    /\ botLastCall[1].input.attack

\* the first set flag of forward, backward, left, right, as a direction name
DirectionByPriority(forward, backward, left, right) ==
    CASE forward -> "forward"
      [] ~forward /\ backward -> "back"
      [] ~forward /\ ~backward /\ left -> "left"
      [] OTHER -> "right"

\* C22 (as claimed): in the interactive client, with attack, castSpell and jump
\* false, the label is 'idle' when no movement flag is set and otherwise its
\* direction part is the first set flag of forward, backward, left, right, for
\* each of the 16 combinations of the movement flags.
C22_DirectionByPriority ==
    LET input == lastCall.input
        dir == DirectionByPriority(input.forward, input.backward, input.left, input.right)
    IN (lastCall.clientAnimation # "none"
          /\ ~input.attack /\ ~input.castSpell /\ ~input.jump) =>
           IF ~(input.forward \/ input.backward \/ input.left \/ input.right)
           THEN lastCall.clientAnimation = "idle"
           ELSE lastCall.clientAnimation \in {"run-" \o dir, "walk-" \o dir}

\* C23 (as claimed): a bot holds each direction for between 3 and 23 ticks:
\* the first re-draw of the direction comes at a tick numbered 3 to 23, and two
\* consecutive re-draws are 3 to 23 ticks apart.
C23_HoldBetween3And23 ==
    \A i \in Bots :
        LET r == redraws[i]
        IN /\ Len(r) >= 1 => r[1] \in 3..23
           /\ \A k \in 1..(Len(r) - 1) : (r[k + 1] - r[k]) \in 3..23

MovementFlags == {"forward", "backward", "left", "right"}

\* C24: every input a bot transmits has exactly one movement flag set, the flag
\* of the direction the session holds, and jump, attack and castSpell false; the
\* label sent with it is never 'idle'.
C24_BotInputOneDirection ==
    \A i \in Bots :
        Len(botUpdates[i]) > 0 =>
            LET input == botLastCall[i].input
            IN /\ {k \in MovementFlags : input[k]} = {state[i].direction}
               /\ ~input.jump /\ ~input.attack /\ ~input.castSpell
               /\ botLastCall[i].clientAnimation # "idle"
               /\ botLastCall[i].clientAnimation # "none"

\* the session has re-drawn its direction and transmitted the new one
C24_Witness ==
    /\ Len(redraws[1]) > 0
    /\ state[1].direction = "left"
    /\ botLastCall[1].input.left
    /\ botLastCall[1].clientAnimation = "run-left"

\* at most the flag k of currentInputRef.current differs across the step
OnlyFlag(k) == \A other \in InputKeys \ {k} : currentInputRef'[other] = currentInputRef[other]

KeyTransition ==
    \/ \E code \in EventCodes, repeat \in BOOLEAN : HandleKeyDown(code, repeat)
    \/ \E code \in EventCodes : HandleKeyUp(code)

MouseTransition ==
    \/ \E button \in MouseButtons : HandleMouseDown(button)
    \/ \E button \in MouseButtons : HandleMouseUp(button)

\* C25: a key or mouse transition changes at most the flag mapped to its control,
\* never the sequence number or another flag; the flags change by such
\* transitions only, so the flags a tick transmits are the latest state the
\* transitions left; the sequence number changes in the tick only.
C25_ControlsChangeOwnFlag ==
    [][/\ \A code \in EventCodes, repeat \in BOOLEAN :
             HandleKeyDown(code, repeat) =>
                 IF code \in DOMAIN keyMap THEN OnlyFlag(keyMap[code])
                 ELSE currentInputRef' = currentInputRef
       /\ \A code \in EventCodes :
             HandleKeyUp(code) =>
                 IF code \in DOMAIN keyMap THEN OnlyFlag(keyMap[code])
                 ELSE currentInputRef' = currentInputRef
       /\ \A button \in MouseButtons :
             (HandleMouseDown(button) \/ HandleMouseUp(button)) =>
                 IF button = 0 THEN OnlyFlag("attack")
                 ELSE currentInputRef' = currentInputRef
       /\ (\E k \in FlagKeys : currentInputRef'[k] # currentInputRef[k]) =>
             (KeyTransition \/ MouseTransition)
       /\ updates' # updates =>
             /\ gameLoop
             /\ \A k \in FlagKeys : lastCall'.input[k] = currentInputRef[k]
       /\ currentInputRef'.sequence # currentInputRef.sequence =>
             (gameLoop /\ ~KeyTransition /\ ~MouseTransition)]_vars

\* the second tick has transmitted forward and sprint, both pressed before it,
\* and sprint has been released since
C25_Witness ==
    /\ lastCall.input.sequence = 2
    /\ lastCall.input.forward /\ lastCall.input.sprint /\ ~lastCall.input.attack
    /\ lastSentInputState # EmptyObject
    /\ ~currentInputRef.sprint /\ currentInputRef.forward

\* C26: while the session is connected, the local-player alias is non-null
\* exactly when the player map holds a record for the local identity, and it is
\* then that record.
C26_AliasConsistent ==
    (program = "App" /\ connectedRef) =>
        /\ (localPlayer # NoPlayer) <=> (identityRef \in DOMAIN players)
        /\ localPlayer # NoPlayer => localPlayer = players[identityRef]
        /\ localPlayerRef = localPlayer

\* the alias was set by the backfill, with no notification for the local row,
\* next to another player's record
C26_Witness ==
    /\ connectedRef
    /\ subApplied
    /\ localPlayer # NoPlayer
    /\ localPlayer = players[identityRef]
    /\ lastWrite[identityRef] = NoPlayer
    /\ Cardinality(DOMAIN players) = 2

\* C27: in every bot session an armed tick timer implies that the session has a
\* connection and is registered; registered never goes back from true to false;
\* the timer is armed at most once, by the one run of onApplied.
C27_ArmedTimerRegistered ==
    /\ [](program = "simulation" =>
             \A i \in Bots :
                 state[i].tickHandle # 0 =>
                     state[i].conn # "undefined" /\ state[i].registered)
    /\ [][\A i \in Bots :
             /\ state[i].registered => state'[i].registered
             /\ botApplied[i] => botApplied'[i]
             /\ (state[i].tickHandle = 0 /\ state'[i].tickHandle # 0) =>
                   (~botApplied[i] /\ botApplied'[i])]_vars

\* one session ticks on its armed timer while another, registered, has had its
\* timer cleared by a disconnect
C27_Witness ==
    /\ program = "simulation"
    /\ state[1].tickHandle # 0 /\ state[1].sequence > 0
    /\ state[2].registered /\ state[2].tickHandle = 0 /\ botSocket[2] = "closed"

\* C28: a join request made while there is no connection issues no
\* registerPlayer call and changes nothing, the dialog stays shown;
\* registerPlayer is issued only by a join request made while a connection
\* exists, and issuing it hides the dialog.
C28_JoinNeedsConnection ==
    [][/\ (HandleJoinGame /\ conn = "null") => UNCHANGED vars
       /\ (registration' = "pending" /\ registration # "pending") =>
             /\ HandleJoinGame
             /\ conn # "null"
             /\ showJoinDialog /\ ~showJoinDialog']_vars

\* the dialog is still shown after the connection went down: a join request
\* can be made with no connection
C28_Witness ==
    /\ program = "App"
    /\ torn
    /\ conn = "null"
    /\ showJoinDialog
    /\ registration = "none"
    /\ ENABLED HandleJoinGame

====
